---------------------------- MODULE Spec2Model ----------------------------
(***************************************************************************)
(* Model of opensearch-keeper.                                             *)
(* Spec is the ISM policy publish path:                                    *)
(*   - the `ism-policies publish` command (cli.py, publish_ism_policies),  *)
(*   - ISMPolicyManager.diff_policy / publish_policy / publish_policies,   *)
(*   - the remote store (get / put with optional if_seq_no and             *)
(*     if_primary_term) and a second, uncoordinated writer.                *)
(* Every remote call is one step, so the other writer can act between the  *)
(* read of diff_policy, the operator's confirmation, the read of           *)
(* publish_policy and its put.                                             *)
(* KeeperSpec is the other commands of cli.py, each from the start of the  *)
(* process: templates list / save / publish / delete and ism-policies      *)
(* list / save / delete, with the managers' methods they call.             *)
(***************************************************************************)
EXTENDS Integers, Sequences, FiniteSets, TLC

(***************************************************************************)
(* Bounds of the model.                                                    *)
(***************************************************************************)
\* writes the second writer may make during one command
MaxOtherWrites == 1
\* remote calls of one command that may fail (transport error, bad response)
MaxFaults == 1
\* the longest ism_template list of a policy document
MaxEntries == 3

(***************************************************************************)
(* Names, file names and documents.  A name is a sequence of characters; a *)
(* file name is the sequence of its "."-separated segments, so that        *)
(* file.split(".")[0] is Head(file) and file.endswith(".yaml") is          *)
(* "at least two segments, the last one yaml".                             *)
(***************************************************************************)
P1 == <<"p", "1">>
P2 == <<"p", "2">>
YAML == <<"y", "a", "m", "l">>
YML == <<"y", "m", "l">>
TXT == <<"t", "x", "t">>

\* the names the remote store may hold
Names == {P1, P2}

\* the files the local policies directory may hold
FileUniverse == {<<P1, YAML>>, <<P2, YAML>>, <<P2, YML>>, <<P1, TXT>>}

\* the name-glob filters an invocation may be given; <<>> is None / ""
Patterns == {<<>>, <<"p", "1">>}

\* the value None of seq_no / primary_term
None == -1

(***************************************************************************)
(* fnmatch.fnmatch(name, pat) for patterns of literals, "?" and "*".       *)
(***************************************************************************)
RECURSIVE fnmatch(_, _)
fnmatch(name, pat) ==
    IF pat = <<>> THEN name = <<>>
    ELSE IF Head(pat) = "*"
         THEN fnmatch(name, Tail(pat))
                \/ (name # <<>> /\ fnmatch(Tail(name), pat))
         ELSE /\ name # <<>>
              /\ (Head(pat) = "?" \/ Head(pat) = Head(name))
              /\ fnmatch(Tail(name), Tail(pat))

\* `pattern and not fnmatch.fnmatch(name, pattern)`: the entity is filtered out
FilteredOut(name, pat) == pat # <<>> /\ ~fnmatch(name, pat)

\* file.endswith((".yaml", ".yml"))
IsYamlFile(file) == Len(file) >= 2 /\ file[Len(file)] \in {YAML, YML}

\* file.split(".")[0]
NameOfFile(file) == Head(file)

\* os.path.join(self.policies_dir, f"{policy_name}.yaml"): the file of an
\* entity, as diff_policy and save_policy derive it from the name.  The
\* command calls publish_policy(policy_name) with the name alone, so this is
\* also the file the command's publish_policy reads.
PolicyFilePath(name) == <<name, YAML>>


(***************************************************************************)
(* Documents.                                                              *)
(***************************************************************************)
DocA == [description |-> "a"]
DocB == [description |-> "b", ism_template |-> <<[priority |-> 1]>>]

\* the clean documents local files and put bodies hold
Docs == {DocA, DocB}

\* what a local file can hold: a mapping, something yaml loads to an empty
\* or non-mapping value, or nothing readable (open / yaml.safe_load raises)
FileContents ==
    {[kind |-> "doc", doc |-> d] : d \in Docs}
        \cup {[kind |-> "invalid", doc |-> DocA],
              [kind |-> "unreadable", doc |-> DocA]}

\* the entry of an entity the remote store does not hold
Absent == [present |-> FALSE, body |-> DocA, seq_no |-> 0, primary_term |-> 1]

\* dict.pop(key, None) on a mapping
Pop(doc, key) == [k \in DOMAIN doc \ {key} |-> doc[k]]

\* the bookkeeping the server adds to a stored body when it serves it
ServerPolicy(e, name) ==
    LET stamp == 1000 * (e.seq_no + 1)
        withTemplates ==
            IF "ism_template" \in DOMAIN e.body
            THEN [e.body EXCEPT !.ism_template =
                     [i \in DOMAIN @ |->
                         [last_updated_time |-> stamp] @@ @[i]]]
            ELSE e.body
    IN  [policy_id |-> name, last_updated_time |-> stamp, schema_version |-> 1]
            @@ withTemplates

\* a mutant of CleanRemotePolicy: the ism_template entries keep their stamp
CleanRemotePolicyTopOnly(remote_policy) ==
    Pop(Pop(Pop(remote_policy, "last_updated_time"), "schema_version"), "policy_id")

\* a mutant of CleanRemotePolicy: policy_id stays in the remote policy
CleanRemotePolicyKeepsId(remote_policy) ==
    LET p == Pop(Pop(remote_policy, "last_updated_time"), "schema_version")
    IN  IF "ism_template" \in DOMAIN p
        THEN [p EXCEPT !.ism_template =
                 [i \in DOMAIN @ |-> Pop(@[i], "last_updated_time")]]
        ELSE p

\* diff_policy's cleanup of the remote policy before the comparison
CleanRemotePolicy(remote_policy) ==
    LET p == Pop(Pop(Pop(remote_policy, "last_updated_time"),
                     "schema_version"), "policy_id")
    IN  IF "ism_template" \in DOMAIN p
        THEN [p EXCEPT !.ism_template =
                 [i \in DOMAIN @ |-> Pop(@[i], "last_updated_time")]]
        ELSE p

\* a mutant of CleanListedPolicy: the cleanup stops at the first key it
\* removed
CleanListedPolicyFirstKey(policy_data) ==
    IF "policy_id" \in DOMAIN policy_data THEN Pop(policy_data, "policy_id")
    ELSE IF "last_updated_time" \in DOMAIN policy_data
    THEN Pop(policy_data, "last_updated_time")
    ELSE Pop(policy_data, "schema_version")

\* a mutant of CleanListedPolicy: the ism_template entries keep their stamp
CleanListedPolicyTopOnly(policy_data) ==
    Pop(Pop(Pop(policy_data, "policy_id"), "last_updated_time"), "schema_version")

\* list_policies' cleanup of the policy of an item: the pop of policy_id
\* that gives the name, then the pops of the bookkeeping
CleanListedPolicy(policy_data) ==
    LET p == Pop(Pop(Pop(policy_data, "policy_id"), "last_updated_time"),
                 "schema_version")
    IN  IF "ism_template" \in DOMAIN p
        THEN [p EXCEPT !.ism_template =
                 [i \in DOMAIN @ |-> Pop(@[i], "last_updated_time")]]
        ELSE p

\* the keys of the mappings, in the order their lines are dumped
DumpKeys ==
    <<"policy_id", "description", "priority", "index_patterns",
      "last_updated_time", "schema_version", "ism_template">>

\* the lines of a mapping of scalars and lists of scalars: a <<key, value>>
\* per key
DumpEntry(m) ==
    LET ks == SelectSeq(DumpKeys, LAMBDA k : k \in DOMAIN m)
    IN  [i \in DOMAIN ks |-> <<ks[i], m[ks[i]]>>]

\* yaml.dump(policy, default_flow_style=False, sort_keys=False): a line per
\* key; the value of ism_template is the list of the dumped entries.  A
\* scalar is dumped so that it loads as itself.
yaml_dump(policy) ==
    LET ks == SelectSeq(DumpKeys, LAMBDA k : k \in DOMAIN policy)
    IN  [i \in DOMAIN ks |->
            <<ks[i], IF ks[i] = "ism_template"
                     THEN [j \in DOMAIN policy[ks[i]] |-> DumpEntry(policy[ks[i]][j])]
                     ELSE policy[ks[i]]>>]

\* the mapping a list of <<key, value>> lines loads as
LoadEntry(lines) ==
    [k \in {lines[i][1] : i \in DOMAIN lines} |->
        lines[CHOOSE i \in DOMAIN lines : lines[i][1] = k][2]]

\* yaml.safe_load of a dumped mapping
safe_load(text) ==
    LET m == LoadEntry(text)
    IN  [k \in DOMAIN m |->
            IF k = "ism_template" THEN [j \in DOMAIN m[k] |-> LoadEntry(m[k][j])]
            ELSE m[k]]

\* what a file holds once yaml.dump(data, f) has written it, as its readers
\* find it: a mapping, or, for the empty mapping, nothing they accept
Dumped(data) ==
    LET loaded == safe_load(yaml_dump(data))
    IN  IF DOMAIN loaded = {} THEN [kind |-> "invalid", doc |-> DocA]
        ELSE [kind |-> "doc", doc |-> loaded]

\* the set of the items of a list of scalars
Items(s) == {s[i] : i \in DOMAIN s}

\* two entries of an ism_template list have the same content under
\* ignore_order=True: the same keys, equal scalars, and lists that hold the
\* same items
SameEntry(a, b) ==
    /\ DOMAIN a = DOMAIN b
    /\ \A k \in DOMAIN a :
          IF k = "index_patterns" THEN Items(a[k]) = Items(b[k]) ELSE a[k] = b[k]

\* a mutant of SameItems: the order of the items counts
SameSequence(s, t) == s = t

\* what ignore_order=True compares of two lists: each item of one has its
\* like in the other, whatever the order and, report_repetition being left
\* False, however many times
SameItems(s, t) ==
    /\ \A i \in DOMAIN s : \E j \in DOMAIN t : SameEntry(s[i], t[j])
    /\ \A j \in DOMAIN t : \E i \in DOMAIN s : SameEntry(s[i], t[j])

\* DeepDiff(t1, t2, ignore_order=True) on two policy mappings: the keys that
\* were added, removed or whose value changed (empty: no difference)
DeepDiff(t1, t2) ==
    {k \in DOMAIN t1 \cup DOMAIN t2 :
        \/ k \notin DOMAIN t1
        \/ k \notin DOMAIN t2
        \/ IF k = "ism_template" THEN ~SameItems(t1[k], t2[k]) ELSE t1[k] # t2[k]}

(***************************************************************************)
(* The remote store.                                                       *)
(***************************************************************************)
\* the params of a put that carries no precondition
NoParams == [if_seq_no |-> None, if_primary_term |-> None]

\* a response of get_policy(policy=name) when the store holds entry e; kind is
\*   "found"    the policy with its _seq_no and _primary_term,
\*   "notfound" NotFoundError,
\*   "error"    any other exception,
\*   "invalid"  a response without a "policy" key
Response(kind, e, name) ==
    [kind |-> kind,
     seq_no |-> IF e.present /\ kind \in {"found", "invalid"} THEN e.seq_no ELSE None,
     primary_term |-> IF e.present /\ kind \in {"found", "invalid"}
                      THEN e.primary_term ELSE None,
     policy |-> IF e.present /\ kind = "found" THEN ServerPolicy(e, name)
                ELSE DocA,
     stored |-> e.body]     \* history: the content the store held then

\* the entry after an accepted put of body
Written(e, body) ==
    [present |-> TRUE, body |-> body,
     seq_no |-> IF e.present THEN e.seq_no + 1 ELSE 0,
     primary_term |-> e.primary_term]

\* whether the store accepts a put with these params on entry e
Accepts(e, params) ==
    \/ params = NoParams
    \/ /\ e.present
       /\ params.if_seq_no = e.seq_no
       /\ params.if_primary_term = e.primary_term

(***************************************************************************)
(* State.                                                                  *)
(***************************************************************************)
VARIABLES
    local_files,    \* the manager's directory: file name -> content
    remote,         \* the remote store: name -> entry
    cmd,            \* "cli": ism-policies publish; "mgr": publish_policies
    pattern,        \* the name-glob filter of the invocation
    force,          \* the --force flag
    pc,             \* where the command stands
    policy_names,   \* cli: the names still to process
    files_left,     \* mgr: the directory entries still to visit
    policy_name,    \* the entity being processed
    policy_file,    \* the file publish_policy reads
    diff_result,    \* cli: what diff_policy returned for policy_name
    seq_no,         \* publish_policy's local
    primary_term,   \* publish_policy's local
    successful,     \* cli: names with successful[name] = True
    skipped,        \* cli: the list of skipped names
    results,        \* mgr: name -> success
    exit_code,      \* None while running, then the command's exit status
    echo,           \* cli: the messages typer.echo printed and the answers
                    \* the operator typed, <<message, name>>
    lookup,         \* history: the outcome of publish_policy's get_policy
    put_log,        \* history: every put_policy call and its outcome
    processed,      \* history: names whose loop iteration ended
    faults,         \* history: remote calls that failed so far
    other_writes,   \* history: writes of the other writer so far
    config_file,    \* what the configuration file holds
    env,            \* the --env option
    reachable,      \* whether client.info() answers
    ignore_patterns,\* the manager's ignore_patterns
    listing,        \* what the store answers to the "get all" of a listing
    listed,         \* what list_policies / list_templates returned
    todo,           \* the listed entries save_* has still to write
    saved_files,    \* the paths save_policies / save_templates collected
    calls,          \* history: the calls made on the remote client
    writes,         \* history: the local files written
    returned,       \* history: file -> what publish_template returned
    changed,        \* history: the names whose store entry the command changed
    summary         \* what the command printed after its batch

vars == <<local_files, remote, cmd, pattern, force, pc, policy_names, files_left,
          policy_name, policy_file, diff_result, seq_no, primary_term,
          successful, skipped, results, exit_code, echo, lookup, put_log,
          processed, faults, other_writes, config_file, env, reachable,
          ignore_patterns, listing, listed, todo, saved_files, calls,
          writes, returned, changed, summary>>

\* the state of the commands other than `ism-policies publish`
kvars == <<config_file, env, reachable, ignore_patterns, listing, listed,
           todo, saved_files, calls, writes, returned, changed>>

\* the names of the local policy files, filtered by the name-glob.  cli.py
\* calls this method of the manager; the manager's source does not hold it,
\* so it is the local store's list(pattern) of the design: the names that
\* publish_policies derives from the directory, each once.
list_local_policies_names(files, pat) ==
    {NameOfFile(f) : f \in {g \in files : IsYamlFile(g)
                                          /\ ~FilteredOut(NameOfFile(g), pat)}}

\* the responses get_policy(policy=name) can give now
RemoteGet(name) ==
    {Response(IF remote[name].present THEN "found" ELSE "notfound",
              remote[name], name)}
        \cup (IF faults < MaxFaults
              THEN {Response("error", remote[name], name),
                    Response("invalid", remote[name], name)}
              ELSE {})

\* a mutant of Loads: what the file holds is not looked at
LoadsAnyFile(file) == file \in DOMAIN local_files

\* whether open() and yaml.safe_load() give a non-empty mapping
Loads(file) ==
    file \in DOMAIN local_files /\ local_files[file].kind = "doc"

\* what publish_policy's get_policy answered, without the document
Lookup(resp) ==
    [kind |-> resp.kind, seq_no |-> resp.seq_no, primary_term |-> resp.primary_term]

\* a diff_policy result; kind is "none" (returns None), "nochange"
\* (has_changes False), "changes" (has_changes True), "raise", "unset"
DiffResult(kind, resp, diff) ==
    [kind |-> kind, diff |-> diff, seq_no |-> resp.seq_no,
     primary_term |-> resp.primary_term,
     read |-> resp.kind,        \* history: how get_policy answered
     stored |-> resp.stored]    \* history: the content the store held then

\* the response diff_policy is given when it makes no remote call
NoCall == [kind |-> "nocall", seq_no |-> None, primary_term |-> None,
           policy |-> DocA, stored |-> DocA]

\* diff_policy(name) when its get_policy call is answered by resp
diff_policy(name, resp) ==
    IF ~Loads(PolicyFilePath(name)) THEN DiffResult("none", NoCall, {})
    ELSE IF resp.kind = "invalid" THEN DiffResult("none", resp, {})
    ELSE IF resp.kind = "notfound" THEN DiffResult("none", resp, {})
    ELSE IF resp.kind = "error" THEN DiffResult("raise", resp, {})
    ELSE LET diff == DeepDiff(CleanRemotePolicy(resp.policy),
                              local_files[PolicyFilePath(name)].doc)
         IN  IF diff = {} THEN DiffResult("nochange", resp, diff)
             ELSE DiffResult("changes", resp, diff)

\* a mutant of Approved: the answer to the prompt is not honoured
ApprovedAlways(f, answer) == TRUE

\* `force or typer.confirm("Apply these changes?")`
Approved(f, answer) == f \/ answer

\* a mutant of PutParams: a half the read did not give is defaulted
PutParamsDefaulted(s, t) ==
    [if_seq_no |-> IF s = None THEN 0 ELSE s,
     if_primary_term |-> IF t = None THEN 1 ELSE t]

\* a mutant of PutParams: the two halves of the token change places
PutParamsSwapped(s, t) ==
    IF s # None /\ t # None
    THEN [if_seq_no |-> t, if_primary_term |-> s]
    ELSE NoParams

\* the params publish_policy gives put_policy
PutParams(s, t) ==
    IF s # None /\ t # None
    THEN [if_seq_no |-> s, if_primary_term |-> t]
    ELSE NoParams

(***************************************************************************)
(* The other commands: configuration, ignore patterns, listings.           *)
(***************************************************************************)
\* the longest answer of the store to a "get all"
MaxItems == 2

\* the ignore_patterns lists a configuration may hold
IgnoreLists == {<<>>, <<P2>>, <<<<"x">>, <<"*", "1">>>>}

\* a configuration file that cannot be opened or parsed
Unreadable == [loaded |-> FALSE, environments |-> {}, ignore_patterns |-> <<>>]

\* what the configuration file can hold; without a file at any default path
\* config_data is {}: no environment, no ignore pattern
ConfigFiles ==
    {Unreadable, [loaded |-> TRUE, environments |-> {}, ignore_patterns |-> <<>>]}
        \cup {[loaded |-> TRUE, environments |-> {"qa"}, ignore_patterns |-> ig] :
                 ig \in IgnoreLists}

\* the values of --env
Envs == {"qa", "dev"}

\* `env_name not in environments` is the ValueError of get_environment_config
EnvConfigured(config, e) == e \in config.environments

\* self.config_data.get("ignore_patterns", [])
get_ignore_patterns(config) == config.ignore_patterns

\* a key a mapping does not hold
Missing == <<"missing">>

\* Python's None where a name is expected
NoName == <<"None">>

\* one item of the answer to a "get all"; shape is
\*   "ok"       a mapping with a mapping as policy / index_template,
\*   "nondict"  not a mapping,
\*   "nobody"   a mapping without the "policy" / "index_template" key,
\*   "badbody"  a mapping whose "policy" / "index_template" is not a mapping;
\* id is its "_id" / "name", policy_id the "policy_id" inside a policy
Item(shape, id, policy_id) ==
    [shape |-> shape, id |-> id, policy_id |-> policy_id, body |-> DocA]

\* the items an answer may hold
ItemUniverse ==
    {Item("nondict", Missing, Missing), Item("nobody", P1, Missing),
     Item("badbody", P1, Missing), Item("ok", P1, Missing),
     Item("ok", P2, Missing), Item("ok", Missing, P1),
     Item("ok", Missing, Missing), Item("ok", P1, P2)}

\* the sequences over S of length at most n
RECURSIVE SeqsUpTo(_, _)
SeqsUpTo(S, n) ==
    IF n = 0 THEN {<<>>}
    ELSE LET shorter == SeqsUpTo(S, n - 1)
         IN  shorter \cup {Append(s, x) : s \in shorter, x \in S}

\* the answers of the store to a "get all": without the "policies" /
\* "index_templates" list, or with a list of items
Listings ==
    {[valid |-> FALSE, items |-> <<>>]}
        \cup {[valid |-> TRUE, items |-> s] : s \in SeqsUpTo(ItemUniverse, MaxItems)}

\* _should_ignore: the name matches one of the ignore patterns
should_ignore(name, patterns) ==
    \E i \in DOMAIN patterns : fnmatch(name, patterns[i])

\* fnmatch.fnmatch(None, p) raises TypeError: the two filters raise on a
\* name that is None as soon as one of them has a pattern to try
FiltersRaise(name, patterns, pat) ==
    name = NoName /\ (patterns # <<>> \/ pat # <<>>)

\* the result of a listing: it raised, or the entries it returned
Raised == [raised |-> TRUE, items |-> <<>>]
Returns(entries) == [raised |-> FALSE, items |-> entries]
NotListed == Returns(<<>>)

\* {"name": ..., "policy": ...} / {"name": ..., "template": ...}
Entry(name, body) == [name |-> name, body |-> body]

\* a mutant of PolicyName: the _id of the envelope comes first
PolicyNameEnvelopeFirst(item) ==
    IF item.id # Missing THEN item.id
    ELSE IF item.policy_id # Missing THEN item.policy_id
    ELSE NoName

\* policy_data.pop("policy_id", policy_item.get("_id"))
PolicyName(item) ==
    IF item.policy_id # Missing THEN item.policy_id
    ELSE IF item.id # Missing THEN item.id
    ELSE NoName

\* a mutant of Kept: the ignore patterns are skipped when a name-glob is given
KeptGlobFirst(name, patterns, pat) ==
    IF pat # <<>> THEN fnmatch(name, pat) ELSE ~should_ignore(name, patterns)

\* the two filters of a listing: not ignored, and matching the name-glob
Kept(name, patterns, pat) ==
    ~should_ignore(name, patterns) /\ ~FilteredOut(name, pat)

\* a mutant of Appended: the entry is put in front of the list
AppendedInFront(entry, later) == later \o <<entry>>

\* policies.append / templates.append: entry, then the entries of the items
\* that come later in the answer
Appended(entry, later) == <<entry>> \o later

\* a mutant of IsList: the answer is not looked at
IsListAlways(response) == TRUE

\* the call answered and the answer holds the list: isinstance(raw_policies,
\* list) / response["index_templates"]
IsList(response) == response.valid

\* list_policies, the loop over raw_policies
RECURSIVE ListPolicyItems(_, _, _)
ListPolicyItems(items, patterns, pat) ==
    IF items = <<>> THEN Returns(<<>>)
    ELSE LET item == Head(items)
             name == PolicyName(item)
             rest == ListPolicyItems(Tail(items), patterns, pat)
         IN  IF item.shape # "ok" THEN rest
             ELSE IF FiltersRaise(name, patterns, pat) THEN Raised
             ELSE IF ~Kept(name, patterns, pat) THEN rest
             ELSE IF rest.raised THEN Raised
             ELSE Returns(Appended(Entry(name, CleanListedPolicy(item.body)),
                                   rest.items))

\* list_policies(pattern) on the answer response of get_policy()
list_policies(response, patterns, pat) ==
    IF ~IsList(response) THEN Raised
    ELSE ListPolicyItems(response.items, patterns, pat)

\* list_templates, the loop over response["index_templates"]
RECURSIVE ListTemplateItems(_, _, _)
ListTemplateItems(items, patterns, pat) ==
    IF items = <<>> THEN Returns(<<>>)
    ELSE LET item == Head(items)
             rest == ListTemplateItems(Tail(items), patterns, pat)
         IN  IF item.shape \in {"nondict", "nobody"} \/ item.id = Missing
             THEN Raised
             ELSE IF ~Kept(item.id, patterns, pat) THEN rest
             ELSE IF rest.raised THEN Raised
             ELSE Returns(Appended(Entry(item.id, item.body), rest.items))

\* list_templates(pattern) on the answer response of get_index_template
list_templates(response, patterns, pat) ==
    IF ~IsList(response) THEN Raised
    ELSE ListTemplateItems(response.items, patterns, pat)

(***************************************************************************)
(* Templates, remote calls, summaries.                                     *)
(***************************************************************************)
TplA == [index_patterns |-> <<"a">>, priority |-> 1]
TplNoPatterns == [priority |-> 1]

\* what a file of the templates directory can hold
TemplateContents ==
    {[kind |-> "doc", doc |-> TplA], [kind |-> "doc", doc |-> TplNoPatterns],
     [kind |-> "invalid", doc |-> TplA], [kind |-> "unreadable", doc |-> TplA]}

\* a mutant of HasIndexPatterns: the document is not looked at
HasIndexPatternsAlways(template_data) == TRUE

\* "index_patterns" in template_data
HasIndexPatterns(template_data) == "index_patterns" \in DOMAIN template_data

\* the record `calls` keeps of one call on the remote client; op is "info",
\* "get_all", "put" or "delete"
Call(op, name, file, body, params, outcome) ==
    [op |-> op, name |-> name, file |-> file, body |-> body, params |-> params,
     outcome |-> outcome]

\* nothing printed after the batch
NoSummary ==
    [published |-> None, failed |-> None, skipped |-> None, failed_names |-> {}]

\* cli.py line 461-465: the counts the ism-policies publish command prints
IsmSummary(s, k) ==
    [published |-> IF s # {} THEN Cardinality(s) ELSE None,
     failed |-> None,
     skipped |-> IF k # <<>> THEN Len(k) ELSE None,
     failed_names |-> {}]

\* cli.py line 269-280: the counts and names the templates publish command
\* prints for the results r
TemplatesSummary(r) ==
    LET failures == {n \in DOMAIN r : ~r[n]}
    IN  [published |-> Cardinality(DOMAIN r \ failures),
         failed |-> IF failures # {} THEN Cardinality(failures) ELSE None,
         skipped |-> None,
         failed_names |-> failures]

\* the manager the ism-policies publish command and publish_policies run
\* on: the configuration was loaded, the environment is configured, the
\* store answered the connection test
ManagerReady ==
    /\ config_file = [loaded |-> TRUE, environments |-> {"qa"},
                      ignore_patterns |-> <<>>]
    /\ env = "qa"
    /\ reachable = TRUE
    /\ ignore_patterns = <<>>
    /\ listing = [valid |-> TRUE, items |-> <<>>]
    /\ listed = NotListed
    /\ todo = <<>>
    /\ saved_files = <<>>
    /\ calls = <<>>
    /\ writes = {}
    /\ returned = <<>>
    /\ changed = {}
    /\ summary = NoSummary

(***************************************************************************)
(* Initial states: a policies directory, a remote store, an invocation.    *)
(***************************************************************************)
\* what each file of the directory holds at the start, when it exists
InitContents(f) ==
    IF f = <<P1, YAML>> THEN FileContents
    ELSE IF f = <<P2, YML>> THEN {[kind |-> "doc", doc |-> DocB]}
    ELSE {[kind |-> "doc", doc |-> DocA]}

Stored(d) == [present |-> TRUE, body |-> d, seq_no |-> 0, primary_term |-> 1]

\* what the remote store holds for each name at the start
InitEntries(n) ==
    IF n = P1 THEN {Absent} \cup {Stored(d) : d \in Docs}
    ELSE {Absent, Stored(DocA)}

Init ==
    /\ local_files \in
         {lf \in UNION {[S -> FileContents] : S \in SUBSET FileUniverse} :
             \A f \in DOMAIN lf : lf[f] \in InitContents(f)}
    /\ remote \in {r \in [Names -> {Absent} \cup {Stored(d) : d \in Docs}] :
                      \A n \in Names : r[n] \in InitEntries(n)}
    /\ cmd \in {"cli", "mgr"}
    /\ pattern \in Patterns
    /\ force \in BOOLEAN
    /\ (cmd = "mgr" => ~force)
    /\ pc = IF cmd = "cli" THEN "cli_list" ELSE "mgr_list"
    /\ policy_names = {}
    /\ files_left = {}
    /\ policy_name = <<>>
    /\ policy_file = <<>>
    /\ diff_result = DiffResult("unset", NoCall, {})
    /\ seq_no = None
    /\ primary_term = None
    /\ successful = {}
    /\ skipped = <<>>
    /\ results = <<>>
    /\ exit_code = None
    /\ echo = {}
    /\ lookup = Lookup(NoCall)
    /\ put_log = <<>>
    /\ processed = {}
    /\ faults = 0
    /\ other_writes = 0
    /\ ManagerReady

\* one more failed remote call when the response is a fault
Faulted(kind) == IF kind \in {"error", "invalid"} THEN faults + 1 ELSE faults

(***************************************************************************)
(* cli.py, publish_ism_policies.                                           *)
(***************************************************************************)
\* line 422-426: the local names; none: echo and return
CliList ==
    /\ pc = "cli_list"
    /\ policy_names' = list_local_policies_names(DOMAIN local_files, pattern)
    /\ IF policy_names' = {}
       THEN pc' = "done" /\ exit_code' = 0
       ELSE pc' = "cli_loop" /\ UNCHANGED exit_code
    /\ UNCHANGED <<local_files, remote, cmd, pattern, force, files_left,
                   policy_name, policy_file, diff_result, seq_no, primary_term,
                   successful, skipped, results, echo, lookup, put_log,
                   processed, faults, other_writes>>
    /\ UNCHANGED <<kvars, summary>>

\* line 432-459: the next name, its diff and the branch taken on the result
CliDiff ==
    /\ pc = "cli_loop"
    /\ \E n \in policy_names :
       \E resp \in (IF Loads(PolicyFilePath(n)) THEN RemoteGet(n) ELSE {NoCall}) :
         LET r == diff_policy(n, resp) IN
         /\ policy_names' = policy_names \ {n}
         /\ policy_name' = n
         /\ diff_result' = r
         /\ faults' = Faulted(resp.kind)
         /\ lookup' = Lookup(NoCall)
         /\ IF r.kind = "raise"
            THEN \* line 467-469: the exception leaves the loop
                 /\ pc' = "done"
                 /\ exit_code' = 1
                 /\ UNCHANGED <<policy_file, skipped, echo, processed>>
            ELSE IF r.kind = "none"
            THEN \* line 436-439
                 /\ echo' = echo \cup {<<"creating", n>>}
                 /\ policy_file' = PolicyFilePath(n)
                 /\ pc' = "pp_lookup"
                 /\ UNCHANGED <<exit_code, skipped, processed>>
            ELSE IF r.kind = "changes"
            THEN \* line 443-448
                 /\ echo' = echo \cup {<<"changes", n>>}
                 /\ policy_file' = PolicyFilePath(n)
                 /\ pc' = IF force THEN "pp_lookup" ELSE "cli_confirm"
                 /\ UNCHANGED <<exit_code, skipped, processed>>
            ELSE \* line 456-459
                 /\ echo' = echo \cup {<<"nochange", n>>}
                 /\ skipped' = Append(skipped, n)
                 /\ processed' = processed \cup {n}
                 /\ pc' = "cli_loop"
                 /\ UNCHANGED <<exit_code, policy_file>>
    /\ UNCHANGED <<local_files, remote, cmd, pattern, force, files_left,
                   seq_no, primary_term, successful, results, put_log,
                   other_writes>>
    /\ UNCHANGED <<kvars, summary>>

\* line 448-454: the operator answers the prompt
CliConfirm ==
    /\ pc = "cli_confirm"
    /\ \E answer \in BOOLEAN :
         /\ echo' = echo \cup {<<"asked", policy_name>>,
                                 <<IF answer THEN "yes" ELSE "no", policy_name>>}
                         \cup (IF Approved(force, answer) THEN {}
                               ELSE {<<"declined", policy_name>>})
         /\ IF Approved(force, answer)
            THEN /\ pc' = "pp_lookup"
                 /\ UNCHANGED <<skipped, processed>>
            ELSE /\ skipped' = Append(skipped, policy_name)
                 /\ processed' = processed \cup {policy_name}
                 /\ pc' = "cli_loop"
    /\ UNCHANGED <<local_files, remote, cmd, pattern, force, policy_names,
                   files_left, policy_name, policy_file, diff_result, seq_no,
                   primary_term, successful, results, exit_code, lookup,
                   put_log, faults, other_writes>>
    /\ UNCHANGED <<kvars, summary>>

\* line 461-465: the loop is over, the summary is printed
CliSummary ==
    /\ pc = "cli_loop"
    /\ policy_names = {}
    /\ pc' = "done"
    /\ exit_code' = 0
    /\ UNCHANGED <<local_files, remote, cmd, pattern, force, policy_names,
                   files_left, policy_name, policy_file, diff_result, seq_no,
                   primary_term, successful, skipped, results, echo, lookup,
                   put_log, processed, faults, other_writes>>
    /\ summary' = IsmSummary(successful, skipped)
    /\ UNCHANGED kvars

(***************************************************************************)
(* ism_policy_manager.py, publish_policy: the read, then the put.          *)
(***************************************************************************)
\* publish_policy returns success to the loop that called it:
\* cli.py line 440-441 / 450-451, ism_policy_manager.py line 236
Return(success) ==
    /\ processed' = processed \cup {policy_name}
    /\ IF cmd = "cli"
       THEN /\ successful' = IF success THEN successful \cup {policy_name}
                             ELSE successful
            /\ pc' = "cli_loop"
            /\ UNCHANGED results
       ELSE /\ results' = (policy_name :> success) @@ results
            /\ pc' = "mgr_loop"
            /\ UNCHANGED successful

\* line 177-200: load the file, then look the policy up for its token
PublishPolicyLookup ==
    /\ pc = "pp_lookup"
    /\ IF ~Loads(policy_file)
       THEN \* line 181-183 (empty, not a mapping), line 215-217 (open raises)
            /\ Return(FALSE)
            /\ UNCHANGED <<seq_no, primary_term, lookup, faults>>
       ELSE \E resp \in RemoteGet(policy_name) :
              /\ lookup' = Lookup(resp)
              /\ faults' = Faulted(resp.kind)
              /\ seq_no' = IF resp.kind \in {"notfound", "error"} THEN None
                           ELSE resp.seq_no
              /\ primary_term' = IF resp.kind \in {"notfound", "error"} THEN None
                                 ELSE resp.primary_term
              /\ pc' = "pp_put"
              /\ UNCHANGED <<successful, results, processed>>
    /\ UNCHANGED <<local_files, remote, cmd, pattern, force, policy_names,
                   files_left, policy_name, policy_file, diff_result, skipped,
                   exit_code, echo, put_log, other_writes>>
    /\ UNCHANGED <<kvars, summary>>

\* a mutant of OnPutFailure: a rejected update is read again and sent again
OnPutFailureRetry(outcome) == IF outcome = "conflict" THEN "pp_lookup" ELSE "return"

\* line 215-217: whatever put_policy raises, publish_policy returns False
OnPutFailure(outcome) == "return"

\* the record put_log keeps of one put_policy call
PutRecord(params, outcome, e) ==
    [name |-> policy_name, file |-> policy_file, params |-> params,
     outcome |-> outcome, body |-> local_files[policy_file].doc,
     lookup |-> lookup, diff |-> diff_result,
     live |-> [present |-> e.present, seq_no |-> e.seq_no,
               primary_term |-> e.primary_term]]

\* line 204-218: the put, with the token when both halves were read
PublishPolicyPut ==
    /\ pc = "pp_put"
    /\ LET params == PutParams(seq_no, primary_term)
           e == remote[policy_name]
       IN  \E outcome \in {IF Accepts(e, params) THEN "ok" ELSE "conflict"}
                            \cup (IF faults < MaxFaults THEN {"error"} ELSE {}) :
             /\ remote' = IF outcome = "ok"
                          THEN [remote EXCEPT ![policy_name] =
                                   Written(e, local_files[policy_file].doc)]
                          ELSE remote
             /\ faults' = IF outcome = "error" THEN faults + 1 ELSE faults
             /\ put_log' = Append(put_log, PutRecord(params, outcome, e))
             /\ IF outcome = "ok" THEN Return(TRUE)
                ELSE IF OnPutFailure(outcome) = "return" THEN Return(FALSE)
                ELSE /\ pc' = "pp_lookup"
                     /\ UNCHANGED <<successful, results, processed>>
    /\ UNCHANGED <<local_files, cmd, pattern, force, policy_names, files_left,
                   policy_name, policy_file, diff_result, seq_no, primary_term,
                   skipped, exit_code, echo, lookup, other_writes>>
    /\ UNCHANGED <<kvars, summary>>

(***************************************************************************)
(* ism_policy_manager.py, publish_policies.                                *)
(***************************************************************************)
\* line 226-228: os.listdir(self.policies_dir)
MgrList ==
    /\ pc = "mgr_list"
    /\ files_left' = DOMAIN local_files
    /\ pc' = "mgr_loop"
    /\ UNCHANGED <<local_files, remote, cmd, pattern, force, policy_names,
                   policy_name, policy_file, diff_result, seq_no, primary_term,
                   successful, skipped, results, exit_code, echo, lookup,
                   put_log, processed, faults, other_writes>>
    /\ UNCHANGED <<kvars, summary>>

\* line 228-235: the next directory entry
MgrNext ==
    /\ pc = "mgr_loop"
    /\ \E file \in files_left :
         /\ files_left' = files_left \ {file}
         /\ IF IsYamlFile(file) /\ ~FilteredOut(NameOfFile(file), pattern)
            THEN /\ policy_name' = NameOfFile(file)
                 /\ policy_file' = file
                 /\ lookup' = Lookup(NoCall)
                 /\ pc' = "pp_lookup"
            ELSE UNCHANGED <<policy_name, policy_file, lookup, pc>>
    /\ UNCHANGED <<local_files, remote, cmd, pattern, force, policy_names,
                   diff_result, seq_no, primary_term, successful, skipped,
                   results, exit_code, echo, put_log, processed, faults,
                   other_writes>>
    /\ UNCHANGED <<kvars, summary>>

\* line 238: return results
MgrReturn ==
    /\ pc = "mgr_loop"
    /\ files_left = {}
    /\ pc' = "done"
    /\ exit_code' = 0
    /\ UNCHANGED <<local_files, remote, cmd, pattern, force, policy_names,
                   files_left, policy_name, policy_file, diff_result, seq_no,
                   primary_term, successful, skipped, results, echo, lookup,
                   put_log, processed, faults, other_writes>>
    /\ UNCHANGED <<kvars, summary>>

(***************************************************************************)
(* Another operator or tool writing to the same environment: the tool      *)
(* holds no lock, so its writes fall between the calls the command makes    *)
(* for an entity: after the diff's read, during the prompt, after          *)
(* publish_policy's read.                                                  *)
(***************************************************************************)
OtherWriter ==
    /\ pc \in {"cli_confirm", "pp_lookup", "pp_put"}
    /\ other_writes < MaxOtherWrites
    /\ \E n \in Names, d \in Docs :
         remote' = [remote EXCEPT ![n] = Written(@, d)]
    /\ other_writes' = other_writes + 1
    /\ UNCHANGED <<local_files, cmd, pattern, force, pc, policy_names,
                   files_left, policy_name, policy_file, diff_result, seq_no,
                   primary_term, successful, skipped, results, exit_code, echo,
                   lookup, put_log, processed, faults>>
    /\ UNCHANGED <<kvars, summary>>

Next ==
    \/ CliList
    \/ CliDiff
    \/ CliConfirm
    \/ CliSummary
    \/ PublishPolicyLookup
    \/ PublishPolicyPut
    \/ MgrList
    \/ MgrNext
    \/ MgrReturn
    \/ OtherWriter

Spec == Init /\ [][Next]_vars

(***************************************************************************)
(* The other commands of cli.py: templates list / save / publish / delete  *)
(* and ism-policies list / save / delete, each from the start of the       *)
(* process: the configuration, the manager and its connection test, then   *)
(* the command's body.                                                     *)
(***************************************************************************)
Lists == {"templates list", "ism-policies list"}
Saves == {"templates save", "ism-policies save"}
Deletes == {"templates delete", "ism-policies delete"}
KeeperCommands == Lists \cup Saves \cup Deletes \cup {"templates publish"}

\* the name-glob filters these commands may be given
KeeperPatterns == Patterns \cup {<<"p", "*">>}

\* the commands that run on a TemplateManager
OnTemplates(c) ==
    c \in {"templates list", "templates save", "templates publish",
           "templates delete"}

\* what each file of the templates directory holds, when it exists
InitTemplateContents(f) ==
    IF f = <<P1, YAML>> THEN TemplateContents
    ELSE IF f = <<P2, YML>> THEN {[kind |-> "doc", doc |-> TplNoPatterns]}
    ELSE {[kind |-> "doc", doc |-> TplA]}

\* the variables of the ism-policies publish path the other commands leave
\* alone
pvars == <<policy_names, policy_file, diff_result, seq_no, primary_term,
           successful, skipped, lookup, put_log, processed, other_writes>>

KeeperInit ==
    /\ cmd \in KeeperCommands
    /\ config_file \in ConfigFiles
    /\ env \in Envs
    /\ reachable \in BOOLEAN
    /\ pattern \in (IF cmd \in Deletes THEN {<<>>} ELSE KeeperPatterns)
    /\ force \in (IF cmd \in Deletes THEN BOOLEAN ELSE {FALSE})
    /\ listing \in (IF cmd \in Lists \cup Saves THEN Listings
                    ELSE {[valid |-> TRUE, items |-> <<>>]})
    /\ local_files \in
         (IF cmd = "templates publish"
          THEN {lf \in UNION {[S -> TemplateContents] : S \in SUBSET FileUniverse} :
                   \A f \in DOMAIN lf : lf[f] \in InitTemplateContents(f)}
          ELSE {<<>>})
    /\ remote \in
         {[n \in Names |-> IF n = P1 THEN e ELSE Absent] :
             e \in {Absent, Stored(TplA)}}
    /\ policy_name \in (IF cmd \in Deletes THEN Names ELSE {<<>>})
    /\ pc = "get_config"
    /\ ignore_patterns = <<>>
    /\ listed = NotListed
    /\ todo = <<>>
    /\ saved_files = <<>>
    /\ calls = <<>>
    /\ writes = {}
    /\ returned = <<>>
    /\ changed = {}
    /\ summary = NoSummary
    /\ policy_names = {}
    /\ files_left = {}
    /\ policy_file = <<>>
    /\ diff_result = DiffResult("unset", NoCall, {})
    /\ seq_no = None
    /\ primary_term = None
    /\ successful = {}
    /\ skipped = <<>>
    /\ results = <<>>
    /\ exit_code = None
    /\ echo = {}
    /\ lookup = Lookup(NoCall)
    /\ put_log = <<>>
    /\ processed = {}
    /\ faults = 0
    /\ other_writes = 0

\* sys.exit(1)
Exit1 == pc' = "done" /\ exit_code' = 1

\* the command returns: exit status 0
Exit0 == pc' = "done" /\ exit_code' = 0

\* where the body of command c starts
Body(c) ==
    IF c \in Lists THEN "list"
    ELSE IF c \in Saves THEN "save"
    ELSE IF c \in Deletes THEN "delete"
    ELSE "tpl_list"

\* cli.py line 85-98 and 35-48, config.py line 24-60: the callback loads the
\* configuration; a file that cannot be loaded ends the process
GetConfig ==
    /\ pc = "get_config"
    /\ IF config_file.loaded THEN pc' = "get_manager" /\ UNCHANGED exit_code
       ELSE Exit1
    /\ UNCHANGED <<local_files, remote, cmd, pattern, force, files_left,
                   policy_name, results, echo, faults, kvars, summary, pvars>>

\* a mutant of CreateManager: the manager is built for any environment and
\* whatever the connection test says
CreateManagerAnyway(config, e, up) == TRUE

\* cli.py line 58-65 / 75-82: the manager is created when the environment is
\* configured (config.py line 69-74) and client.info() answers
\* (template_manager.py line 39-49, ism_policy_manager.py line 42-52)
CreateManager(config, e, up) == EnvConfigured(config, e) /\ up

\* cli.py line 51-82: get_template_manager / get_ism_policy_manager
GetManager ==
    /\ pc = "get_manager"
    /\ IF EnvConfigured(config_file, env)
       THEN /\ ignore_patterns' = get_ignore_patterns(config_file)
            /\ calls' = Append(calls, Call("info", <<>>, <<>>, DocA, NoParams,
                                           IF reachable THEN "ok" ELSE "error"))
       ELSE UNCHANGED <<ignore_patterns, calls>>
    /\ IF CreateManager(config_file, env, reachable)
       THEN pc' = Body(cmd) /\ UNCHANGED exit_code
       ELSE Exit1
    /\ UNCHANGED <<local_files, remote, cmd, pattern, force, files_left,
                   policy_name, results, echo, faults, config_file, env,
                   reachable, listing, listed, todo, saved_files, writes,
                   returned, changed, summary, pvars>>

(***************************************************************************)
(* list and save.                                                          *)
(***************************************************************************)
\* a mutant of ListCall: the listing goes out as a write
ListCallPut(c) == "put"

\* ism_policy_manager.py line 82 (get_policy()), template_manager.py line 70
\* (get_index_template(name="*")): the one remote call of a listing
ListCall(c) == "get_all"

\* the manager's listing for command c on the store's answer
ListOf(c, response, patterns, pat) ==
    IF OnTemplates(c) THEN list_templates(response, patterns, pat)
    ELSE list_policies(response, patterns, pat)

\* the remote call a listing makes
ListingCall ==
    Call(ListCall(cmd), <<>>, <<>>, DocA, NoParams,
         IF listing.valid THEN "ok" ELSE "error")

\* cli.py line 208-216 / 336-372: the list commands
List ==
    /\ pc = "list"
    /\ calls' = Append(calls, ListingCall)
    /\ listed' = ListOf(cmd, listing, ignore_patterns, pattern)
    /\ IF listed'.raised THEN Exit1 /\ UNCHANGED echo
       ELSE /\ Exit0
            /\ echo' = echo \cup {<<"listed", listed'.items[i].name>> :
                                     i \in DOMAIN listed'.items}
    /\ UNCHANGED <<local_files, remote, cmd, pattern, force, files_left,
                   policy_name, results, faults, config_file, env, reachable,
                   ignore_patterns, listing, todo, saved_files, writes,
                   returned, changed, summary, pvars>>

\* save_policies line 143 / save_templates line 97: the listing a save
\* starts with; when it raises the command exits (cli.py line 242-244 /
\* 398-400)
SaveList ==
    /\ pc = "save"
    /\ calls' = Append(calls, ListingCall)
    /\ listed' = ListOf(cmd, listing, ignore_patterns, pattern)
    /\ todo' = listed'.items
    /\ IF listed'.raised THEN Exit1 ELSE pc' = "save_loop" /\ UNCHANGED exit_code
    /\ UNCHANGED <<local_files, remote, cmd, pattern, force, files_left,
                   policy_name, results, echo, faults, config_file, env,
                   reachable, ignore_patterns, listing, saved_files, writes,
                   returned, changed, summary, pvars>>

\* save_policy returns the path whether or not the file was written (line
\* 161-168); save_templates collects the path of a written file only (line
\* 107-113)
Collected(c, file, written) ==
    IF OnTemplates(c) /\ ~written THEN <<>> ELSE <<file>>

\* save_policies line 146-149 / save_templates line 100-113: the next entry
\* is dumped to <name>.yaml
SaveNext ==
    /\ pc = "save_loop"
    /\ todo # <<>>
    /\ LET entry == Head(todo)
           file == PolicyFilePath(entry.name)
       IN  \E written \in {TRUE} \cup (IF faults < MaxFaults THEN {FALSE} ELSE {}) :
             /\ local_files' =
                  IF written
                  THEN (file :> Dumped(entry.body)) @@ local_files
                  ELSE local_files
             /\ writes' = IF written THEN writes \cup {file} ELSE writes
             /\ faults' = IF written THEN faults ELSE faults + 1
             /\ saved_files' = saved_files \o Collected(cmd, file, written)
    /\ todo' = Tail(todo)
    /\ UNCHANGED <<remote, cmd, pattern, force, pc, files_left, policy_name,
                   results, exit_code, echo, config_file, env, reachable,
                   ignore_patterns, listing, listed, calls, returned, changed,
                   summary, pvars>>

\* cli.py line 236-241 / 392-397: the count of saved files is printed
SaveSummary ==
    /\ pc = "save_loop"
    /\ todo = <<>>
    /\ Exit0
    /\ summary' = [NoSummary EXCEPT !.published = Len(saved_files)]
    /\ UNCHANGED <<local_files, remote, cmd, pattern, force, files_left,
                   policy_name, results, echo, faults, kvars, pvars>>

(***************************************************************************)
(* templates publish: cli.py publish_templates, template_manager.py        *)
(* publish_templates and publish_template.                                 *)
(***************************************************************************)
\* line 154: os.listdir(self.templates_dir)
PublishTemplatesList ==
    /\ pc = "tpl_list"
    /\ files_left' = DOMAIN local_files
    /\ pc' = "tpl_loop"
    /\ UNCHANGED <<local_files, remote, cmd, pattern, force, policy_name,
                   results, exit_code, echo, faults, kvars, summary, pvars>>

\* publish_template line 124-136: whether the file yields a document to put
Publishable(file) ==
    Loads(file) /\ HasIndexPatterns(local_files[file].doc)

\* line 154-162: the next directory entry; a template file that passes the
\* name-glob goes to publish_template (line 117-144), whose result is kept
\* under the name
PublishTemplatesNext ==
    /\ pc = "tpl_loop"
    /\ \E file \in files_left :
         LET name == NameOfFile(file) IN
         /\ files_left' = files_left \ {file}
         /\ IF ~(IsYamlFile(file) /\ ~FilteredOut(name, pattern))
            THEN UNCHANGED <<remote, policy_name, results, faults, calls,
                             returned, changed>>
            ELSE /\ policy_name' = name
                 /\ IF ~Publishable(file)
                    THEN /\ results' = (name :> FALSE) @@ results
                         /\ returned' = (file :> FALSE) @@ returned
                         /\ UNCHANGED <<remote, faults, calls, changed>>
                    ELSE \E outcome \in {"ok"} \cup (IF faults < MaxFaults
                                                     THEN {"error"} ELSE {}) :
                           /\ calls' = Append(calls,
                                  Call("put", name, file, local_files[file].doc,
                                       NoParams, outcome))
                           /\ remote' = IF outcome = "ok"
                                        THEN [remote EXCEPT ![name] =
                                                 Written(@, local_files[file].doc)]
                                        ELSE remote
                           /\ changed' = IF outcome = "ok" THEN changed \cup {name}
                                         ELSE changed
                           /\ faults' = IF outcome = "ok" THEN faults ELSE faults + 1
                           /\ results' = (name :> (outcome = "ok")) @@ results
                           /\ returned' = (file :> (outcome = "ok")) @@ returned
    /\ UNCHANGED <<local_files, cmd, pattern, force, pc, exit_code, echo,
                   config_file, env, reachable, ignore_patterns, listing,
                   listed, todo, saved_files, writes, summary, pvars>>

\* cli.py line 265-280: nothing to report, or the counts and the failed
\* names; the command returns
PublishTemplatesSummary ==
    /\ pc = "tpl_loop"
    /\ files_left = {}
    /\ summary' = IF results = <<>> THEN NoSummary ELSE TemplatesSummary(results)
    /\ Exit0
    /\ UNCHANGED <<local_files, remote, cmd, pattern, force, files_left,
                   policy_name, results, echo, faults, kvars, pvars>>

(***************************************************************************)
(* delete: cli.py delete_template / delete_ism_policy, the managers'       *)
(* delete_template / delete_policy.                                        *)
(***************************************************************************)
\* a mutant of Confirmed: the answer to the prompt is not looked at
ConfirmedAnyway(f, answer) == TRUE

\* cli.py line 302 / 488: `force or typer.confirm(...)`
Confirmed(f, answer) == f \/ answer

\* the condition of line 302 / 488; the prompt appears without --force only
DeleteConfirm ==
    /\ pc = "delete"
    /\ \E answer \in BOOLEAN :
         /\ echo' = IF force THEN echo
                    ELSE echo \cup {<<"asked", policy_name>>,
                                     <<IF answer THEN "yes" ELSE "no", policy_name>>}
         /\ IF Confirmed(force, answer)
            THEN pc' = "delete_call" /\ UNCHANGED exit_code
            ELSE Exit0
    /\ UNCHANGED <<local_files, remote, cmd, pattern, force, files_left,
                   policy_name, results, faults, kvars, summary, pvars>>

\* cli.py line 303-308 / 489-494 with delete_template (line 166-178) /
\* delete_policy (line 240-252): the remote delete and the exit status
DeleteCall ==
    /\ pc = "delete_call"
    /\ \E outcome \in {IF remote[policy_name].present THEN "ok" ELSE "notfound"}
                        \cup (IF faults < MaxFaults THEN {"error"} ELSE {}) :
         /\ calls' = Append(calls, Call("delete", policy_name, <<>>, DocA,
                                        NoParams, outcome))
         /\ remote' = IF outcome = "ok"
                      THEN [remote EXCEPT ![policy_name] = Absent]
                      ELSE remote
         /\ changed' = IF outcome = "ok" THEN changed \cup {policy_name}
                       ELSE changed
         /\ faults' = IF outcome = "error" THEN faults + 1 ELSE faults
         /\ echo' = echo \cup {<<IF outcome = "ok" THEN "deleted" ELSE "failed",
                                 policy_name>>}
         /\ IF outcome = "ok" THEN Exit0 ELSE Exit1
    /\ UNCHANGED <<local_files, cmd, pattern, force, files_left, policy_name,
                   results, config_file, env, reachable, ignore_patterns,
                   listing, listed, todo, saved_files, writes, returned,
                   summary, pvars>>

KeeperNext ==
    \/ GetConfig
    \/ GetManager
    \/ List
    \/ SaveList
    \/ SaveNext
    \/ SaveSummary
    \/ PublishTemplatesList
    \/ PublishTemplatesNext
    \/ PublishTemplatesSummary
    \/ DeleteConfirm
    \/ DeleteCall

KeeperSpec == KeeperInit /\ [][KeeperNext]_vars

(***************************************************************************)
(* diff_policy on richer documents: the ism-policies publish command on    *)
(* one policy the store holds, with ism_template lists of up to MaxEntries *)
(* entries on either side, and a store that answers every call.            *)
(***************************************************************************)
EntryX == [priority |-> 1, index_patterns |-> <<"x", "y">>]
EntryXSwapped == [priority |-> 1, index_patterns |-> <<"y", "x">>]
EntryY == [priority |-> 2, index_patterns |-> <<"x", "y">>]

\* the entries an ism_template list may hold
TemplateEntries == {EntryX, EntryXSwapped, EntryY}

\* the policy documents with description d
RichDocs(d) ==
    {[description |-> d]}
        \cup {[description |-> d, ism_template |-> t] :
                 t \in SeqsUpTo(TemplateEntries, MaxEntries)}

DiffInit ==
    /\ \E doc \in RichDocs("a") :
          remote = [n \in Names |-> IF n = P1 THEN Stored(doc) ELSE Absent]
    /\ \E doc \in RichDocs("a") \cup RichDocs("b") :
          local_files = (<<P1, YAML>> :> [kind |-> "doc", doc |-> doc])
    /\ cmd = "cli"
    /\ pattern = <<>>
    /\ force = FALSE
    /\ pc = "cli_list"
    /\ policy_names = {}
    /\ files_left = {}
    /\ policy_name = <<>>
    /\ policy_file = <<>>
    /\ diff_result = DiffResult("unset", NoCall, {})
    /\ seq_no = None
    /\ primary_term = None
    /\ successful = {}
    /\ skipped = <<>>
    /\ results = <<>>
    /\ exit_code = None
    /\ echo = {}
    /\ lookup = Lookup(NoCall)
    /\ put_log = <<>>
    /\ processed = {}
    /\ faults = MaxFaults
    /\ other_writes = 0
    /\ ManagerReady

DiffNext ==
    \/ CliList
    \/ CliDiff
    \/ CliConfirm
    \/ CliSummary
    \/ PublishPolicyLookup
    \/ PublishPolicyPut

DiffSpec == DiffInit /\ [][DiffNext]_vars

(***************************************************************************)
(* Save, then publish: `ism-policies save` of the one policy the store     *)
(* holds, followed by `ism-policies publish --force` on the directory it   *)
(* wrote; with --force the command does not prompt.                        *)
(***************************************************************************)
\* the keys of the server's bookkeeping at the top of a policy
Bookkeeping == {"policy_id", "last_updated_time", "schema_version"}

\* the policy of stored entry e as an answer may carry it: with the
\* bookkeeping of the server, stamped entries or not, or with less of it
RawPolicies(e, name) ==
    LET full == {ServerPolicy(e, name),
                 [policy_id |-> name, last_updated_time |-> 1000 * (e.seq_no + 1),
                  schema_version |-> 1] @@ e.body}
    IN  {[k \in DOMAIN p \ K |-> p[k]] : p \in full, K \in SUBSET Bookkeeping}

\* the item of a get_policy() answer for the policy `policy` with _id id
RawItem(id, policy) ==
    [shape |-> "ok", id |-> id,
     policy_id |-> IF "policy_id" \in DOMAIN policy THEN policy.policy_id
                   ELSE Missing,
     body |-> policy]

RoundTripInit ==
    /\ \E doc \in RichDocs("a") :
          /\ remote = [n \in Names |-> IF n = P1 THEN Stored(doc) ELSE Absent]
          /\ \E raw \in RawPolicies(Stored(doc), P1) :
                listing = [valid |-> TRUE, items |-> <<RawItem(P1, raw)>>]
    /\ cmd = "ism-policies save"
    /\ config_file = [loaded |-> TRUE, environments |-> {"qa"},
                      ignore_patterns |-> <<>>]
    /\ env = "qa"
    /\ reachable = TRUE
    /\ pattern = <<>>
    /\ force = TRUE
    /\ local_files = <<>>
    /\ policy_name = <<>>
    /\ pc = "get_config"
    /\ ignore_patterns = <<>>
    /\ listed = NotListed
    /\ todo = <<>>
    /\ saved_files = <<>>
    /\ calls = <<>>
    /\ writes = {}
    /\ returned = <<>>
    /\ changed = {}
    /\ summary = NoSummary
    /\ policy_names = {}
    /\ files_left = {}
    /\ policy_file = <<>>
    /\ diff_result = DiffResult("unset", NoCall, {})
    /\ seq_no = None
    /\ primary_term = None
    /\ successful = {}
    /\ skipped = <<>>
    /\ results = <<>>
    /\ exit_code = None
    /\ echo = {}
    /\ lookup = Lookup(NoCall)
    /\ put_log = <<>>
    /\ processed = {}
    /\ faults = 0
    /\ other_writes = 0

\* the save has returned and `ism-policies publish --force` is run on the
\* same directory and environment (cli.py line 417-418)
ThenPublish ==
    /\ pc = "done"
    /\ cmd = "ism-policies save"
    /\ exit_code = 0
    /\ cmd' = "cli"
    /\ pc' = "cli_list"
    /\ exit_code' = None
    /\ UNCHANGED <<local_files, remote, pattern, force, files_left,
                   policy_name, results, echo, faults, kvars, summary, pvars>>

RoundTripNext ==
    \/ GetConfig
    \/ GetManager
    \/ SaveList
    \/ SaveNext
    \/ SaveSummary
    \/ ThenPublish
    \/ CliList
    \/ CliDiff
    \/ CliSummary
    \/ PublishPolicyLookup
    \/ PublishPolicyPut

RoundTripSpec == RoundTripInit /\ [][RoundTripNext]_vars

(***************************************************************************)
(* Vocabulary of the properties.                                           *)
(***************************************************************************)
\* the indices of the put_policy calls made for name
PutsOf(name) == {i \in DOMAIN put_log : put_log[i].name = name}

\* the indices of the put_policy calls of the publish_policy call on
\* (name, file)
PutsOfCall(name, file) ==
    {i \in DOMAIN put_log : put_log[i].name = name /\ put_log[i].file = file}

\* the put_policy calls made for the current entity by the running command:
\* the command processes each name once, publish_policies each file once
PutsOfCurrent ==
    IF cmd = "cli" THEN PutsOf(policy_name)
    ELSE PutsOfCall(policy_name, policy_file)

\* the token a response carried, as put_policy params
TokenOf(r) == [if_seq_no |-> r.seq_no, if_primary_term |-> r.primary_term]

\* name is in the list skipped
InSkipped(name) == \E i \in DOMAIN skipped : skipped[i] = name

\* publish_policy has returned for the current entity
Returned == pc \in {"cli_loop", "mgr_loop", "done"}

\* the command reports the current entity published
ReportedPublished ==
    IF cmd = "cli" THEN policy_name \in successful
    ELSE policy_name \in DOMAIN results /\ results[policy_name]

(***************************************************************************)
(* C1.  If another writer modifies remote policy N after the command read  *)
(* N for the diff shown to the operator and before it issues its write,    *)
(* the write is rejected and the other writer's content is not             *)
(* overwritten: the token sent with the update is the one of the read the  *)
(* diff was computed from.                                                 *)
(* The code reads N a second time in publish_policy and sends that token.  *)
(***************************************************************************)
C1_UpdateCarriesDiffToken ==
    \A i \in DOMAIN put_log :
        LET r == put_log[i] IN
        (/\ r.diff.kind = "changes"
         /\ r.lookup.kind = "found"
         /\ TokenOf(r.live) # TokenOf(r.diff))
            => (r.params = TokenOf(r.diff) /\ r.outcome # "ok")

(***************************************************************************)
(* C2.  When publish_policy's read finds N with token (seq_no,             *)
(* primary_term), the publish issues exactly one put for N, and the put    *)
(* carries if_seq_no and if_primary_term equal to that token.              *)
(***************************************************************************)
C2_UpdateCarriesReadToken ==
    /\ \A i \in DOMAIN put_log :
          put_log[i].lookup.kind = "found"
              => put_log[i].params = TokenOf(put_log[i].lookup)
    /\ (Returned /\ lookup.kind = "found")
          => Cardinality(PutsOfCurrent) = 1

\* an approved change of an existing policy went out with the token read
C2_Witness ==
    \E i \in DOMAIN put_log :
        /\ put_log[i].diff.kind = "changes"
        /\ put_log[i].lookup.kind = "found"
        /\ put_log[i].params.if_seq_no = 1
        /\ put_log[i].params.if_primary_term = 1
        /\ put_log[i].outcome = "ok"

(***************************************************************************)
(* C3.  When the remote lookup for N answers NotFound, publishing N        *)
(* (publish_policy, and the ism-policies publish command) issues exactly   *)
(* one put for N, the put carries no token, the operator is not asked, and *)
(* N is reported created once the store has accepted the put.              *)
(***************************************************************************)
C3_CreateIsUnconditional ==
    /\ \A i \in DOMAIN put_log :
          put_log[i].lookup.kind = "notfound" => put_log[i].params = NoParams
    /\ (Returned /\ lookup.kind = "notfound")
          => /\ Cardinality(PutsOfCurrent) = 1
             /\ (\A i \in PutsOfCurrent :
                    put_log[i].outcome = "ok") => ReportedPublished
    /\ (cmd = "cli" /\ diff_result.read = "notfound")
          => /\ <<"asked", policy_name>> \notin echo
             /\ <<"creating", policy_name>> \in echo
             /\ pc # "cli_confirm"

\* the command created a policy the store did not hold
C3_Witness ==
    /\ cmd = "cli"
    /\ pc = "done"
    /\ diff_result.read = "notfound"
    /\ lookup.kind = "notfound"
    /\ \E i \in DOMAIN put_log :
          /\ put_log[i].name = policy_name
          /\ put_log[i].params = NoParams
          /\ put_log[i].outcome = "ok"
    /\ policy_name \in successful

C5_LookupErrorAbortsEntity ==
    /\ \A i \in DOMAIN put_log : put_log[i].lookup.kind # "error"
    /\ (pc = "done" /\ diff_result.kind = "raise") => policy_names = {}

(***************************************************************************)
(* C6.  When the store rejects a conditioned update with a conflict, the   *)
(* entity is reported failed and no further put is attempted for it: at    *)
(* most one put per entity per run of the command, and per file in         *)
(* publish_policies.                                                       *)
(***************************************************************************)
C6_NoRetryAfterConflict ==
    /\ \A i, j \in DOMAIN put_log :
          (/\ put_log[i].name = put_log[j].name
           /\ (cmd = "cli" \/ put_log[i].file = put_log[j].file))
              => i = j
    /\ (/\ Returned
        /\ put_log # <<>>
        /\ put_log[Len(put_log)].name = policy_name
        /\ put_log[Len(put_log)].file = policy_file
        /\ put_log[Len(put_log)].outcome = "conflict")
          => ~ReportedPublished

\* a conditioned update was rejected and the entity's publish has returned
C6_Witness ==
    /\ Returned
    /\ put_log # <<>>
    /\ put_log[Len(put_log)].name = policy_name
    /\ put_log[Len(put_log)].outcome = "conflict"
    /\ put_log[Len(put_log)].params # NoParams
    /\ Cardinality(PutsOf(policy_name)) = 1

(***************************************************************************)
(* C7.  In a publish batch every selected local entity is processed to an  *)
(* outcome even when an earlier entity's lookup, diff or write fails.      *)
(* A lookup that fails inside diff_policy ends the command.                *)
(***************************************************************************)
C7_BatchNeverStopsEarly ==
    (cmd = "cli" /\ pc = "done")
        => /\ policy_names = {}
           /\ list_local_policies_names(DOMAIN local_files, pattern) \subseteq processed

(***************************************************************************)
(* C8.  At the end of a publish batch every processed entity is recorded   *)
(* in exactly one outcome: none is left unrecorded, none is recorded       *)
(* twice.                                                                  *)
(* The command keeps `successful` and `skipped` only: an entity whose      *)
(* publish_policy returned False is in neither.                            *)
(***************************************************************************)
C8_EveryEntityHasOneOutcome ==
    (cmd = "cli" /\ pc = "done")
        => \A n \in processed :
              /\ n \in successful \/ InSkipped(n)
              /\ ~(n \in successful /\ InSkipped(n))
              /\ Cardinality({i \in DOMAIN skipped : skipped[i] = n}) <= 1

(***************************************************************************)
(* C9.  The command treats N as a create (a put without diff and without   *)
(* confirmation) only when the remote store answered NotFound for N: a     *)
(* missing, unreadable or invalid local file, or an invalid remote         *)
(* response, is never classified as a create.                              *)
(* diff_policy returns None in all of these cases and the command takes    *)
(* None for "does not exist remotely".                                     *)
(***************************************************************************)
C9_CreateOnlyOnNotFound ==
    /\ (cmd = "cli" /\ <<"creating", policy_name>> \in echo)
          => diff_result.read = "notfound"
    /\ \A i \in DOMAIN put_log :
          put_log[i].diff.kind = "none" => put_log[i].diff.read = "notfound"

(***************************************************************************)
(* C10.  When diff_policy reports changes for an existing policy, a put    *)
(* for it is issued only after the operator accepted the prompt or under   *)
(* the force flag; when the operator declines, no put is issued for it and *)
(* it is listed as skipped.                                                *)
(***************************************************************************)
C10_WriteNeedsApproval ==
    /\ \A i \in DOMAIN put_log :
          put_log[i].diff.kind = "changes"
              => force \/ <<"yes", put_log[i].name>> \in echo
    /\ \A n \in Names :
          <<"no", n>> \in echo
              => /\ PutsOf(n) = {}
                 /\ InSkipped(n)
                 /\ n \notin successful
                 /\ ~(pc \in {"pp_lookup", "pp_put"} /\ policy_name = n)

\* the operator declined a change and the command ended without a put
C10_Witness ==
    /\ pc = "done"
    /\ ~force
    /\ \E n \in Names :
          /\ <<"changes", n>> \in echo
          /\ <<"no", n>> \in echo
          /\ PutsOf(n) = {}
          /\ remote[n].present
          /\ remote[n].body # local_files[PolicyFilePath(n)].doc

(***************************************************************************)
(* Vocabulary of the properties of the other commands.                     *)
(***************************************************************************)
\* the indices of the calls of kind op the command made
CallsOf(op) == {i \in DOMAIN calls : calls[i].op = op}

\* the manager exists: the command is in its body or went through it
ManagerCreated ==
    /\ config_file.loaded
    /\ EnvConfigured(config_file, env)
    /\ reachable
    /\ pc \notin {"get_config", "get_manager"}

(***************************************************************************)
(* C11.  During a publish batch an entity whose name, derived from the     *)
(* local file name, matches an ignore pattern is never written to the      *)
(* remote store, whatever the name-glob filter.                            *)
(* publish_templates (and publish_policies) filter by the name-glob only:  *)
(* _should_ignore is not called on the publish path.                       *)
(***************************************************************************)
C11_IgnoredNeverPublished ==
    cmd = "templates publish"
        => \A i \in CallsOf("put") :
              ~should_ignore(calls[i].name, ignore_patterns)

\* the ignore patterns the configuration gives the manager
Configured == get_ignore_patterns(config_file)

\* the names of the entries a listing returned
ListedNames == {listed.items[i].name : i \in DOMAIN listed.items}

(***************************************************************************)
(* C12.  Whatever the store's listing, the ignore patterns and the         *)
(* name-glob, list_policies, list_templates, save_policies and             *)
(* save_templates never return, print, or write a local file for, an       *)
(* entity whose name matches an ignore pattern.                            *)
(***************************************************************************)
C12_IgnoredNeverListedOrSaved ==
    cmd \in Lists \cup Saves
        => /\ \A n \in ListedNames : ~should_ignore(n, Configured)
           /\ \A m \in echo : m[1] = "listed" => ~should_ignore(m[2], Configured)
           /\ \A f \in writes : ~should_ignore(NameOfFile(f), Configured)
           /\ \A f \in DOMAIN local_files : ~should_ignore(NameOfFile(f), Configured)
           /\ \A i \in DOMAIN saved_files :
                 ~should_ignore(NameOfFile(saved_files[i]), Configured)

\* a save under a name-glob ended with a file written, while the store's
\* answer also held a well-formed entity that passes the glob and is ignored
C12_Witness ==
    /\ cmd \in Saves
    /\ pc = "done"
    /\ pattern # <<>>
    /\ writes # {}
    /\ \E i \in DOMAIN listing.items :
          /\ listing.items[i].shape = "ok"
          /\ listing.items[i].id # Missing
          /\ ~FilteredOut(listing.items[i].id, pattern)
          /\ should_ignore(listing.items[i].id, ignore_patterns)

\* the name the manager of the running command gives an item
EntityName(item) == IF OnTemplates(cmd) THEN item.id ELSE PolicyName(item)

\* the item is an entity: it has the structure and an identifier
IsEntity(item) ==
    /\ item.shape \in (IF OnTemplates(cmd) THEN {"ok", "badbody"} ELSE {"ok"})
    /\ EntityName(item) \notin {Missing, NoName}

\* the entity matches no ignore pattern and, when a name-glob is given,
\* matches the glob
Wanted(item) ==
    /\ IsEntity(item)
    /\ \A i \in DOMAIN Configured : ~fnmatch(EntityName(item), Configured[i])
    /\ pattern = <<>> \/ fnmatch(EntityName(item), pattern)

(***************************************************************************)
(* C13.  When the store's answer holds entities only (or items             *)
(* list_policies skips for their structure), list(pattern) returns exactly *)
(* the entities whose name matches no ignore pattern and, when a name-glob *)
(* is given, matches the glob: each once, in the order of the answer, with *)
(* its body, and nothing else.                                             *)
(***************************************************************************)
C13_ListReturnsExactlyTheWanted ==
    (/\ cmd \in Lists \cup Saves
     /\ pc \in {"done", "save_loop"}
     /\ ManagerCreated
     /\ ~listed.raised
     /\ \A i \in DOMAIN listing.items :
           listing.items[i].shape = "ok" => IsEntity(listing.items[i]))
        => LET wanted == SelectSeq(listing.items, Wanted)
           IN  /\ Len(listed.items) = Len(wanted)
               /\ \A i \in DOMAIN wanted :
                     /\ listed.items[i].name = EntityName(wanted[i])
                     /\ listed.items[i].body = wanted[i].body

\* a list command returned two entities in the order of the answer, with
\* p2 in front of p1
C13_Witness ==
    /\ cmd \in Lists
    /\ pc = "done"
    /\ exit_code = 0
    /\ Len(listed.items) = 2
    /\ listed.items[1].name = P2
    /\ listed.items[2].name = P1

(***************************************************************************)
(* C14.  The delete commands issue the remote delete of the named template *)
(* or policy only under --force or after the operator answered yes to the  *)
(* prompt; when the operator declines, no remote delete is issued and the  *)
(* store is left as it was.                                                *)
(***************************************************************************)
C14_DeleteNeedsConfirmation ==
    cmd \in Deletes
        => /\ (pc = "delete_call" \/ CallsOf("delete") # {})
                 => force \/ <<"yes", policy_name>> \in echo
           /\ force => <<"asked", policy_name>> \notin echo
           /\ <<"no", policy_name>> \in echo
                 => /\ pc = "done"
                    /\ CallsOf("delete") = {}
                    /\ CallsOf("put") = {}
                    /\ changed = {}

\* the operator declined the delete of an entity the store holds, and the
\* store still holds it when the command has ended
C14_Witness ==
    /\ cmd \in Deletes
    /\ pc = "done"
    /\ ~force
    /\ <<"no", policy_name>> \in echo
    /\ remote[policy_name].present
    /\ CallsOf("delete") = {}

(***************************************************************************)
(* C15.  A batch command exits with status 0 only on full success: when    *)
(* the publish of one template, or a delete, failed, the exit status is    *)
(* not 0.                                                                  *)
(* The delete commands exit 1 on a failed delete; templates publish prints *)
(* the failures and returns, so its status is 0 (as is the status of       *)
(* ism-policies publish after a publish_policy that returned False).       *)
(***************************************************************************)
C15_ExitZeroOnlyOnFullSuccess ==
    (pc = "done" /\ exit_code = 0)
        => /\ cmd = "templates publish"
                 => /\ \A n \in DOMAIN results : results[n]
                    /\ \A f \in DOMAIN returned : returned[f]
           /\ cmd \in Deletes
                 => \A i \in CallsOf("delete") : calls[i].outcome = "ok"

(***************************************************************************)
(* C16.  After a publish batch the summary counts successes, failures and  *)
(* skips, and every entity whose publish failed is listed by name.         *)
(* templates publish prints the failure count and the failed names;        *)
(* ism-policies publish prints the published and skipped counts only: an   *)
(* entity whose publish_policy returned False appears nowhere.             *)
(***************************************************************************)
C16_SummaryNamesEveryFailure ==
    (cmd = "cli" /\ pc = "done" /\ exit_code = 0)
        => \A n \in processed :
              (n \notin successful /\ ~InSkipped(n))
                  => /\ n \in summary.failed_names
                     /\ summary.failed # None

\* the item has the minimal structure: a mapping with a mapping as body and
\* a usable identifier
WellFormed(item) ==
    item.shape = "ok" /\ EntityName(item) \notin {Missing, NoName}

\* the item is well formed, not ignored, and matches the name-glob
WantedWellFormed(item) == WellFormed(item) /\ Wanted(item)

(***************************************************************************)
(* C17.  A listing skips an item of the store's answer that lacks the      *)
(* minimal structure (not a mapping, body missing or not a mapping, no     *)
(* usable identifier) and returns every other well-formed, non-ignored,    *)
(* glob-matching item: one malformed item never makes the listing fail.    *)
(* list_templates indexes item["name"] and item["index_template"] without  *)
(* a check, and list_policies hands a name that is None to fnmatch: both   *)
(* raise, and the listing fails as a whole.                                *)
(***************************************************************************)
C17_MalformedItemIsSkipped ==
    (/\ cmd \in Lists \cup Saves
     /\ pc \in {"done", "save_loop"}
     /\ ManagerCreated
     /\ listing.valid)
        => LET wanted == SelectSeq(listing.items, WantedWellFormed)
           IN  /\ ~listed.raised
               /\ Len(listed.items) = Len(wanted)
               /\ \A i \in DOMAIN wanted :
                     listed.items[i].name = EntityName(wanted[i])

\* the configuration cannot be loaded, the environment is not configured,
\* or the store does not answer the connection test
StartupFails ==
    \/ ~config_file.loaded
    \/ env \notin config_file.environments
    \/ ~reachable

(***************************************************************************)
(* C18.  When the configuration cannot be loaded, the requested            *)
(* environment is not configured, or the connection test fails, the        *)
(* command ends with status 1 before any entity is listed, fetched,        *)
(* written locally or written remotely: the only remote call it may have   *)
(* made is the connection test.                                            *)
(***************************************************************************)
C18_StartupFailureStopsTheCommand ==
    (cmd \in KeeperCommands /\ StartupFails)
        => /\ pc \in {"get_config", "get_manager", "done"}
           /\ pc = "done" => exit_code = 1
           /\ \A i \in DOMAIN calls : calls[i].op = "info"
           /\ listed = NotListed
           /\ saved_files = <<>>
           /\ writes = {}
           /\ changed = {}
           /\ results = <<>>
           /\ echo = {}

\* templates publish ended with status 1 on a failed connection test, with
\* a publishable file in the directory and nothing put
C18_Witness ==
    /\ cmd = "templates publish"
    /\ pc = "done"
    /\ exit_code = 1
    /\ config_file.loaded
    /\ env \in config_file.environments
    /\ ~reachable
    /\ \E f \in DOMAIN local_files : IsYamlFile(f) /\ Publishable(f)
    /\ Len(calls) = 1
    /\ calls[1].op = "info"
    /\ calls[1].outcome = "error"

\* the put_index_template calls publish_template made for file
PutsOfFile(file) == {i \in CallsOf("put") : calls[i].file = file}

\* the file holds a mapping with the index_patterns key
HoldsTemplate(file) ==
    /\ local_files[file].kind = "doc"
    /\ "index_patterns" \in DOMAIN local_files[file].doc

(***************************************************************************)
(* C19.  publish_template issues no put for a local document that lacks    *)
(* index_patterns, is empty, is not a mapping or cannot be read: it        *)
(* returns False and the store is unchanged.  A document with              *)
(* index_patterns is put once, under the given name, without token.        *)
(***************************************************************************)
C19_TemplateNeedsIndexPatterns ==
    cmd = "templates publish"
        => /\ \A i \in CallsOf("put") :
                 /\ HoldsTemplate(calls[i].file)
                 /\ calls[i].body = local_files[calls[i].file].doc
                 /\ calls[i].name = NameOfFile(calls[i].file)
                 /\ calls[i].params = NoParams
           /\ \A f \in DOMAIN returned :
                 IF HoldsTemplate(f)
                 THEN /\ Cardinality(PutsOfFile(f)) = 1
                      /\ \A i \in PutsOfFile(f) :
                            returned[f] <=> calls[i].outcome = "ok"
                 ELSE PutsOfFile(f) = {} /\ ~returned[f]
           /\ \A n \in changed :
                 \E i \in CallsOf("put") :
                    calls[i].name = n /\ calls[i].outcome = "ok"
           /\ \A n \in Names \ changed :
                 remote[n] \in {Absent, Stored(TplA)} /\ (n = P2 => remote[n] = Absent)

\* the batch ended with p2.yml, which lacks index_patterns, refused and p2
\* still absent from the store, and with p1.yaml put
C19_Witness ==
    /\ cmd = "templates publish"
    /\ pc = "done"
    /\ <<P2, YML>> \in DOMAIN returned
    /\ ~returned[<<P2, YML>>]
    /\ ~remote[P2].present
    /\ <<P1, YAML>> \in DOMAIN returned
    /\ returned[<<P1, YAML>>]
    /\ remote[P1].body = TplA
    /\ Cardinality(PutsOfFile(<<P1, YAML>>)) = 1

(***************************************************************************)
(* C20.  The list and save commands of templates and policies issue no     *)
(* remote put and no remote delete: their only calls are the connection    *)
(* test and the "get all" of the listing, and no store entry changes.      *)
(***************************************************************************)
C20_ListAndSaveOnlyRead ==
    cmd \in Lists \cup Saves
        => /\ \A i \in DOMAIN calls : calls[i].op \in {"info", "get_all"}
           /\ Cardinality(CallsOf("get_all")) <= 1
           /\ changed = {}
           /\ remote[P1] \in {Absent, Stored(TplA)}
           /\ remote[P2] = Absent

\* a save ended having written two files, with the store still holding p1
\* as it was and one listing call made
C20_Witness ==
    /\ cmd \in Saves
    /\ pc = "done"
    /\ Cardinality(writes) = 2
    /\ remote[P1] = Stored(TplA)
    /\ Cardinality(CallsOf("get_all")) = 1
    /\ Len(calls) = 2

(***************************************************************************)
(* C21.  The list of paths a save returns holds exactly the <name>.yaml    *)
(* paths of the listed entities whose file was written: a file whose write *)
(* failed is not reported as saved.                                        *)
(* save_templates collects a path after a successful write only;           *)
(* save_policy returns the path from outside its try, so save_policies     *)
(* collects the path of a file that was never written.                     *)
(***************************************************************************)
C21_SavedPathsAreWrittenFiles ==
    cmd \in Saves
        => /\ \A i \in DOMAIN saved_files : saved_files[i] \in writes
           /\ pc = "done" /\ exit_code = 0
                 => /\ \A f \in writes : \E i \in DOMAIN saved_files : saved_files[i] = f
                    /\ summary.published = Cardinality(writes)

\* the ways to rearrange a list of n items
Rearrangements(n) ==
    {f \in [1..n -> 1..n] : \A i, j \in 1..n : f[i] = f[j] => i = j}

\* t is the list s of scalars in another order
ReorderedScalars(s, t) ==
    /\ Len(s) = Len(t)
    /\ \E f \in Rearrangements(Len(s)) : \A i \in DOMAIN s : s[i] = t[f[i]]

\* b is the entry a but for the order of the items of its lists
ReorderedEntry(a, b) ==
    /\ DOMAIN a = DOMAIN b
    /\ \A k \in DOMAIN a :
          IF k = "index_patterns" THEN ReorderedScalars(a[k], b[k]) ELSE a[k] = b[k]

\* t is the list s of entries in another order, each but for the order of
\* the items of its lists
ReorderedEntries(s, t) ==
    /\ Len(s) = Len(t)
    /\ \E f \in Rearrangements(Len(s)) :
          \A i \in DOMAIN s : ReorderedEntry(s[i], t[f[i]])

\* the documents r and l differ at most by the order of the items of their
\* lists, at either depth
OnlyOrderDiffers(r, l) ==
    /\ DOMAIN r = DOMAIN l
    /\ \A k \in DOMAIN r :
          IF k = "ism_template" THEN ReorderedEntries(r[k], l[k]) ELSE r[k] = l[k]

\* the remote side of diff_policy's comparison, the store holding what it
\* held at the read
NormalizedRemote(name) == CleanRemotePolicy(ServerPolicy(remote[name], name))

\* the local side of diff_policy's comparison
LocalPolicy(name) == local_files[PolicyFilePath(name)].doc

\* diff_policy has compared the two documents of P1 and the store is as it
\* was at the read
Compared ==
    /\ diff_result.kind \in {"nochange", "changes"}
    /\ put_log = <<>>

\* C23: when the local document differs from the normalized remote document
\* only by the order of the items of lists, at any depth, diff_policy reports
\* has_changes = False.
C23_OrderInsensitive ==
    Compared /\ OnlyOrderDiffers(NormalizedRemote(P1), LocalPolicy(P1))
        => diff_result.kind = "nochange"

\* the two sides hold the same entries in another order, one entry with its
\* index_patterns in another order, and no change is reported
C23_Witness ==
    /\ Compared
    /\ "ism_template" \in DOMAIN NormalizedRemote(P1) \cap DOMAIN LocalPolicy(P1)
    /\ NormalizedRemote(P1).ism_template = <<EntryX, EntryY>>
    /\ LocalPolicy(P1).ism_template = <<EntryY, EntryXSwapped>>
    /\ LocalPolicy(P1).description = NormalizedRemote(P1).description
    /\ diff_result.kind = "nochange"

\* the top-level keys on the path of the one scalar field in which r and l
\* differ; empty when they do not differ in exactly one scalar field
OneScalarDiff(r, l) ==
    IF DOMAIN r # DOMAIN l THEN {}
    ELSE IF r.description # l.description
    THEN IF \A k \in DOMAIN r \ {"description"} : r[k] = l[k]
         THEN {"description"} ELSE {}
    ELSE IF /\ "ism_template" \in DOMAIN r
            /\ Len(r.ism_template) = Len(l.ism_template)
            /\ \E i \in DOMAIN r.ism_template :
                  /\ r.ism_template[i].priority # l.ism_template[i].priority
                  /\ r.ism_template[i].index_patterns = l.ism_template[i].index_patterns
                  /\ \A j \in DOMAIN r.ism_template \ {i} :
                        r.ism_template[j] = l.ism_template[j]
    THEN {"ism_template"} ELSE {}

\* C24: when the normalized remote document and the local document differ in
\* the value of exactly one scalar field, diff_policy reports has_changes =
\* True and the diff names the path of that field.
C24_OneScalarFieldReported ==
    Compared
        => \A k \in OneScalarDiff(NormalizedRemote(P1), LocalPolicy(P1)) :
              /\ diff_result.kind = "changes"
              /\ k \in diff_result.diff

\* the policy of the one item of the answer to the listing
RawListed == listing.items[1].body

\* the raw policy carries all the bookkeeping of the server, down to the
\* stamp of an ism_template entry
FullyStamped(raw) ==
    /\ Bookkeeping \subseteq DOMAIN raw
    /\ "ism_template" \in DOMAIN raw
    /\ \E i \in DOMAIN raw.ism_template :
          "last_updated_time" \in DOMAIN raw.ism_template[i]

\* C22: stripping the metadata is idempotent: the cleanup of list_policies
\* and the cleanup of diff_policy leave a document that went through either
\* of them as it is.
C22_StrippingIdempotent ==
    /\ \A i \in DOMAIN listed.items :
          LET once == listed.items[i].body
          IN  CleanListedPolicy(once) = once /\ CleanRemotePolicy(once) = once
    /\ Compared
          => LET once == NormalizedRemote(policy_name)
             IN  CleanRemotePolicy(once) = once /\ CleanListedPolicy(once) = once

\* a fully stamped policy was listed, the cleanup changed it, and the remote
\* side of a comparison was cleaned too
C22_Witness ==
    /\ listed.items # <<>>
    /\ FullyStamped(RawListed)
    /\ listed.items[1].body # RawListed
    /\ Compared

\* document d holds none of the server's bookkeeping
NoBookkeeping(d) ==
    /\ DOMAIN d \cap Bookkeeping = {}
    /\ "ism_template" \in DOMAIN d
          => \A i \in DOMAIN d.ism_template :
                "last_updated_time" \notin DOMAIN d.ism_template[i]

\* document d holds every other key of the raw policy with its value, and
\* nothing else
Preserved(raw, d) ==
    /\ DOMAIN d = DOMAIN raw \ Bookkeeping
    /\ \A k \in DOMAIN d :
          IF k = "ism_template"
          THEN /\ Len(d[k]) = Len(raw[k])
               /\ \A i \in DOMAIN d[k] :
                     /\ DOMAIN d[k][i] = DOMAIN raw[k][i] \ {"last_updated_time"}
                     /\ \A j \in DOMAIN d[k][i] : d[k][i][j] = raw[k][i][j]
          ELSE d[k] = raw[k]

\* C25: the policy documents list_policies returns, save_policies writes and
\* diff_policy compares as the remote side hold none of the bookkeeping keys
\* (policy_id, last_updated_time, schema_version at the top, last_updated_time
\* in an ism_template entry) and every other key and value of the raw policy.
C25_CleanDocuments ==
    /\ \A i \in DOMAIN listed.items :
          /\ NoBookkeeping(listed.items[i].body)
          /\ Preserved(RawListed, listed.items[i].body)
    /\ \A f \in writes :
          /\ local_files[f].kind = "doc"
          /\ NoBookkeeping(local_files[f].doc)
          /\ Preserved(RawListed, local_files[f].doc)
    /\ Compared
          => /\ NoBookkeeping(NormalizedRemote(policy_name))
             /\ Preserved(ServerPolicy(remote[policy_name], policy_name),
                          NormalizedRemote(policy_name))

\* a fully stamped policy was listed, written, and compared
C25_Witness ==
    /\ listed.items # <<>>
    /\ FullyStamped(RawListed)
    /\ writes # {}
    /\ Compared

\* C27: after save_policies wrote policy N, the store and the file being
\* what they were, diff_policy(N) reports has_changes = False.
C27_SaveThenDiffNoChange ==
    /\ cmd = "cli"
    /\ diff_result.kind # "unset"
    /\ PolicyFilePath(policy_name) \in writes
    /\ diff_result.read \in {"found", "nocall"}
    => diff_result.kind = "nochange"

\* a fully stamped policy with two ism_template entries was saved and the
\* comparison that follows reports no change
C27_Witness ==
    /\ cmd = "cli"
    /\ FullyStamped(RawListed)
    /\ Len(RawListed.ism_template) >= 2
    /\ PolicyFilePath(policy_name) \in writes
    /\ diff_result.kind = "nochange"

\* the name of the item of a policy listing: the policy_id of its policy
\* when it has one, its _id otherwise
PolicyIdOrId(item) ==
    IF item.policy_id # Missing THEN item.policy_id ELSE item.id

\* the item of a policy listing is a policy whose name passes the ignore
\* list and the name-glob
PolicyWanted(item) ==
    /\ item.shape = "ok"
    /\ ~should_ignore(PolicyIdOrId(item), Configured)
    /\ pattern = <<>> \/ fnmatch(PolicyIdOrId(item), pattern)

\* C26: the name list_policies gives a policy is the policy_id of its body
\* when present and the _id of the envelope otherwise, and the ignore list
\* and the name-glob are evaluated on that name.
C26_NameIsPolicyIdThenId ==
    (/\ cmd \in {"ism-policies list", "ism-policies save"}
     /\ pc \in {"done", "save_loop"}
     /\ ManagerCreated
     /\ listing.valid
     /\ \A i \in DOMAIN listing.items :
           listing.items[i].shape = "ok" => listing.items[i].id # Missing)
        => LET wanted == SelectSeq(listing.items, PolicyWanted)
           IN  /\ ~listed.raised
               /\ Len(listed.items) = Len(wanted)
               /\ \A i \in DOMAIN wanted :
                     listed.items[i].name = PolicyIdOrId(wanted[i])

\* under the name-glob p1, the policy with _id p1 and policy_id p2 was
\* left out, and the policy without policy_id and with _id p1 was listed
C26_Witness ==
    /\ cmd = "ism-policies list"
    /\ pc = "done"
    /\ exit_code = 0
    /\ pattern = P1
    /\ listing.items = <<Item("ok", P1, P2), Item("ok", P1, Missing)>>
    /\ Len(listed.items) = 1
    /\ ListedNames = {P1}

\* the files of the directory publish_policies publishes: the YAML files
\* whose name passes the name-glob
PublishedFiles ==
    {f \in DOMAIN local_files : IsYamlFile(f) /\ ~FilteredOut(NameOfFile(f), pattern)}

(***************************************************************************)
(* C28.  Within one publish_policies invocation each derived name receives *)
(* at most one remote write, and the result map has one entry per          *)
(* published local file: two files whose names share the text before the   *)
(* first '.' are never both written to the same remote entity.             *)
(* publish_policies takes every *.yaml and *.yml entry of the directory    *)
(* and publishes it under the text before the first '.': p2.yaml and       *)
(* p2.yml are both put to p2, and results keeps one entry for the two.     *)
(***************************************************************************)
C28_OneWritePerDerivedName ==
    cmd = "mgr"
        => /\ \A i, j \in DOMAIN put_log :
                 put_log[i].name = put_log[j].name => i = j
           /\ pc = "done"
                 => Cardinality(DOMAIN results) = Cardinality(PublishedFiles)

\* the file is empty or holds something that is not a mapping
NotAMapping(file) ==
    file \in DOMAIN local_files /\ local_files[file].kind = "invalid"

\* publish_policies is past its publish_policy call on policy_file
PublishPolicyReturned ==
    /\ cmd = "mgr"
    /\ pc \in {"mgr_loop", "done"}
    /\ policy_file # <<>>

(***************************************************************************)
(* C29.  publish_policy given a local file that is empty or whose content  *)
(* is not a mapping returns False without a remote read or write: the      *)
(* store is left as it was.                                                *)
(***************************************************************************)
C29_InvalidFileNoRemoteCall ==
    cmd = "mgr"
        => /\ \A i \in DOMAIN put_log : ~NotAMapping(put_log[i].file)
           /\ pc = "pp_put" => ~NotAMapping(policy_file)
           /\ (PublishPolicyReturned /\ NotAMapping(policy_file))
                 => /\ lookup = Lookup(NoCall)
                    /\ results[policy_name] = FALSE
                    /\ PutsOfCall(policy_name, policy_file) = {}

\* publish_policy returned False for a file that is not a mapping, no call
\* was made, and the store holds the policy of that name as it did
C29_Witness ==
    /\ PublishPolicyReturned
    /\ NotAMapping(policy_file)
    /\ results[policy_name] = FALSE
    /\ put_log = <<>>
    /\ faults = 0
    /\ remote[policy_name] = Stored(DocA)

(***************************************************************************)
(* C30.  When the listing call fails, or its answer does not hold the      *)
(* list, the listing raises, and the save that depends on it writes no     *)
(* local file and reports nothing saved: the local store is unchanged.     *)
(***************************************************************************)
C30_FailedListingSavesNothing ==
    (cmd \in Saves /\ ManagerCreated /\ ~listing.valid)
        => /\ pc = "save" \/ (pc = "done" /\ exit_code = 1 /\ listed.raised)
           /\ writes = {}
           /\ saved_files = <<>>
           /\ local_files = <<>>
           /\ summary = NoSummary
           /\ \A m \in echo : m[1] # "listed"

\* a save whose listing call was made and did not give the list has ended
C30_Witness ==
    /\ cmd \in Saves
    /\ ManagerCreated
    /\ ~listing.valid
    /\ pc = "done"
    /\ CallsOf("get_all") # {}
    /\ listed.raised
    /\ local_files = <<>>
====
